---- MODULE Spec2Model ----
(***************************************************************************)
(* Model of man10-fish.py: the hourly income estimator compute_income, the *)
(* Config record it reads and the command line in main that builds the     *)
(* Config.                                                                 *)
(*                                                                         *)
(* Every quantity of compute_income is a Python float, so every +, -, *    *)
(* and / of the source is a correctly rounded binary floating-point        *)
(* operation (round to nearest, ties to even), and / raises                *)
(* ZeroDivisionError on a zero divisor.  A float is modelled as a pair     *)
(* <<m, e>> of value m * 2^e, with m odd (or <<0, 0>> for zero) and        *)
(* |m| < 2^Precision.  The exponent is unbounded: the model covers the     *)
(* computations in which no intermediate value leaves the normal range of  *)
(* the float format (no overflow to inf, no underflow), with finite        *)
(* inputs.                                                                 *)
(***************************************************************************)
EXTENDS Integers, Sequences, FiniteSets, TLC

\* Bits of significand of a float.  Python's float has 53; the model is
\* checked with a scaled-down significand.
Precision == 4

\* Most flags on one command line.
MaxFlags == 1

RECURSIVE Pow2(_)
Pow2(n) == IF n <= 0 THEN 1 ELSE 2 * Pow2(n - 1)

RECURSIVE BitLen(_)
BitLen(n) == IF n = 0 THEN 0 ELSE 1 + BitLen(n \div 2)

Abs(x) == IF x < 0 THEN -x ELSE x

\* The canonical pair of value m * 2^e.
RECURSIVE Norm(_, _)
Norm(m, e) ==
    IF m = 0 THEN <<0, 0>>
    ELSE IF m % 2 = 0 THEN Norm(m \div 2, e + 1)
    ELSE <<m, e>>

\* n * 2^e, n >= 0, rounded to Precision significant bits, ties to even.
RoundMag(n, e) ==
    IF n < Pow2(Precision) THEN Norm(n, e)
    ELSE LET k    == BitLen(n) - Precision
             q    == n \div Pow2(k)
             r    == n % Pow2(k)
             half == Pow2(k - 1)
             up   == r > half \/ (r = half /\ q % 2 = 1)
         IN  Norm(IF up THEN q + 1 ELSE q, e + k)

Neg(a) == <<-a[1], a[2]>>

\* The float nearest to the exact value n * 2^e.
Fl(n, e) == IF n < 0 THEN Neg(RoundMag(-n, e)) ELSE RoundMag(n, e)

Zero == <<0, 0>>
One == <<1, 0>>

\* int -> float, as Python converts an int operand of a float operation.
IntToFloat(n) == Fl(n, 0)

\* float * float
Mul(a, b) == Fl(a[1] * b[1], a[2] + b[2])

\* float + float.  An operand more than 2 * Precision + 1 binary places
\* below the other is under a quarter of its unit in the last place and
\* leaves it unchanged.
Add(a, b) ==
    IF a[1] = 0 THEN b
    ELSE IF b[1] = 0 THEN a
    ELSE IF a[2] - b[2] > 2 * Precision + 1 THEN a
    ELSE IF b[2] - a[2] > 2 * Precision + 1 THEN b
    ELSE LET e == IF a[2] < b[2] THEN a[2] ELSE b[2]
         IN  Fl(a[1] * Pow2(a[2] - e) + b[1] * Pow2(b[2] - e), e)

\* float - float
Sub(a, b) == Add(a, Neg(b))

\* The correctly rounded quotient a / b, b # 0: the integer quotient of
\* the significands carried to 2 * Precision + 2 extra bits, with a sticky
\* bit for a non-zero remainder.
Div(a, b) ==
    LET K   == 2 * Precision + 2
        n   == Abs(a[1]) * Pow2(K)
        d   == Abs(b[1])
        q   == n \div d
        s   == IF n % d = 0 THEN 0 ELSE 1
        mag == RoundMag(2 * q + s, a[2] - b[2] - K - 1)
    IN  IF (a[1] < 0) = (b[1] < 0) THEN mag ELSE Neg(mag)

\* The exception a zero divisor raises, a value no float equals.
ZeroDivisionError == <<"ZeroDivisionError">>

IsRaised(v) == Len(v) = 1

\* Fault variant of TrueDiv: a zero divisor yields 0 and no exception.
TrueDivZeroGuard(a, b) == IF b = Zero THEN Zero ELSE Div(a, b)

\* a / b of the source: ZeroDivisionError on a zero divisor.
TrueDiv(a, b) == IF b = Zero THEN ZeroDivisionError ELSE Div(a, b)

\* Comparisons of floats: the sign of the rounded difference is the sign of
\* the exact one.
Lt(a, b) == Sub(a, b)[1] < 0
Le(a, b) == Sub(a, b)[1] <= 0


\* A decimal literal n / d of the source, converted to the nearest float.
Dec(n, d) ==
    LET K == 2 * Precision + 6
        q == (n * Pow2(K)) \div d
        s == IF (n * Pow2(K)) % d = 0 THEN 0 ELSE 1
    IN  RoundMag(2 * q + s, -(K + 1))

(***************************************************************************)
(* Config: the dataclass and its defaults.  The int fields (treasure_types *)
(* and the prices) hold integers; the others hold floats.                  *)
(***************************************************************************)
Config ==
    [catches_per_hour         |-> Dec(500, 1),
     treasure_rate            |-> Dec(113, 1000),
     treasure_types           |-> 6,
     fish_rate_cod            |-> Dec(60, 100),
     fish_rate_salmon         |-> Dec(25, 100),
     fish_rate_puffer         |-> Dec(13, 100),
     fish_rate_tropical       |-> Dec(2, 100),
     fish_price_cod           |-> 20,
     fish_price_salmon        |-> 80,
     fish_price_puffer        |-> 180,
     fish_price_tropical      |-> 400,
     book_mending_rate        |-> Dec(377, 10000),
     book_mending_single_rate |-> Dec(409, 1000),
     book_mending_multi_rate  |-> Dec(591, 1000),
     book_smite_only_rate     |-> Dec(74, 10000),
     book_bane_only_rate      |-> Dec(49, 10000),
     book_unb3_only_rate      |-> Dec(143, 10000),
     avg_enchants_per_book    |-> Dec(211, 100),
     avg_xp_per_enchant       |-> Dec(25, 1),
     avg_xp_per_catch         |-> Dec(35, 10),
     xp_cash_numer            |-> Dec(40, 1),
     xp_cash_denom            |-> Dec(12, 1),
     avg_enchants_per_tool    |-> Dec(3, 1),
     price_mending_single     |-> 220000,
     price_mending_multi      |-> 120000,
     price_smite_only         |-> 15000,
     price_bane_only          |-> 15000,
     price_unb3_only          |-> 5000]

ConfigFields == DOMAIN Config

(***************************************************************************)
(* compute_income, one operator per local of the function, in its order;   *)
(* the parameters of an operator are the Config and the earlier locals the *)
(* statement reads.                                                        *)
(***************************************************************************)
yen_per_xp(cfg) == TrueDiv(cfg.xp_cash_numer, cfg.xp_cash_denom)

\* Fault variant of treasures_per_hour: the rate is added, not multiplied.
treasures_per_hour_adds(cfg) == Add(cfg.catches_per_hour, cfg.treasure_rate)

treasures_per_hour(cfg) == Mul(cfg.catches_per_hour, cfg.treasure_rate)

books_per_hour(cfg, treasures) ==
    TrueDiv(treasures, IntToFloat(cfg.treasure_types))

mending_books_per_hour(cfg, books) == Mul(books, cfg.book_mending_rate)

mending_single_books(cfg, mending) == Mul(mending, cfg.book_mending_single_rate)

mending_multi_books(cfg, mending) == Mul(mending, cfg.book_mending_multi_rate)

revenue_mending(cfg, single, multi) ==
    Add(Mul(single, IntToFloat(cfg.price_mending_single)),
        Mul(multi, IntToFloat(cfg.price_mending_multi)))

sellable_non_mending_rate(cfg) ==
    Add(Add(cfg.book_smite_only_rate, cfg.book_bane_only_rate),
        cfg.book_unb3_only_rate)

sellable_non_mending_books(books, rate) == Mul(books, rate)

revenue_non_mending(cfg, books) ==
    Add(Add(Mul(Mul(books, cfg.book_smite_only_rate),
                IntToFloat(cfg.price_smite_only)),
            Mul(Mul(books, cfg.book_bane_only_rate),
                IntToFloat(cfg.price_bane_only))),
        Mul(Mul(books, cfg.book_unb3_only_rate),
            IntToFloat(cfg.price_unb3_only)))

\* Fault variant of grind_books: the mending books are not subtracted.
grind_books_forgets_mending(books, mending, sellable) == Sub(books, sellable)

\* Fault variant of grind_books: a negative remainder is clamped to 0.
grind_books_clamped(books, mending, sellable) ==
    IF Sub(Sub(books, mending), sellable)[1] < 0 THEN Zero
    ELSE Sub(Sub(books, mending), sellable)

grind_books(books, mending, sellable) == Sub(Sub(books, mending), sellable)

xp_from_books(cfg, grind) ==
    Mul(Mul(grind, cfg.avg_enchants_per_book), cfg.avg_xp_per_enchant)

yen_from_books(xp, yen) == Mul(xp, yen)

tools_per_hour(cfg, treasures) ==
    Mul(treasures, TrueDiv(IntToFloat(2), IntToFloat(cfg.treasure_types)))

xp_from_tools(cfg, tools) ==
    Mul(Mul(tools, cfg.avg_enchants_per_tool), cfg.avg_xp_per_enchant)

yen_from_tools(xp, yen) == Mul(xp, yen)

\* Fault variant of xp_from_fishing: only the fish catches give XP.
xp_from_fishing_fish_only(cfg) ==
    Mul(Mul(cfg.catches_per_hour, Sub(One, cfg.treasure_rate)), cfg.avg_xp_per_catch)

xp_from_fishing(cfg) == Mul(cfg.catches_per_hour, cfg.avg_xp_per_catch)

yen_from_fishing(xp, yen) == Mul(xp, yen)

fish_rate_total(cfg) == Sub(One, cfg.treasure_rate)

\* Fault variant of fish_per_hour: the treasure rate is subtracted from the
\* catches.
fish_per_hour_offset(cfg, rate) == Sub(cfg.catches_per_hour, cfg.treasure_rate)

\* Fault variant of fish_per_hour: every catch counts as a fish.
fish_per_hour_all_catches(cfg, rate) == cfg.catches_per_hour

fish_per_hour(cfg, rate) == Mul(cfg.catches_per_hour, rate)

cod(cfg, fish) == Mul(fish, cfg.fish_rate_cod)

salmon(cfg, fish) == Mul(fish, cfg.fish_rate_salmon)

puffer(cfg, fish) == Mul(fish, cfg.fish_rate_puffer)

tropical(cfg, fish) == Mul(fish, cfg.fish_rate_tropical)

revenue_fish(cfg, c, s, p, t) ==
    Add(Add(Add(Mul(c, IntToFloat(cfg.fish_price_cod)),
                Mul(s, IntToFloat(cfg.fish_price_salmon))),
            Mul(p, IntToFloat(cfg.fish_price_puffer))),
        Mul(t, IntToFloat(cfg.fish_price_tropical)))

\* Fault variant of total: the tools' revenue is left out.
total_omits_tools(fish, fishing, mending, non_mending, books, tools) ==
    Add(Add(Add(Add(fish, fishing), mending), non_mending), books)

total(fish, fishing, mending, non_mending, books, tools) ==
    Add(Add(Add(Add(Add(fish, fishing), mending), non_mending), books), tools)

\* The outcome of a call: the exception raised ("" for none) and the
\* returned dict in a sequence, <<>> when the call raised.
compute_income(cfg) ==
    LET yen         == yen_per_xp(cfg)
        treasures   == treasures_per_hour(cfg)
        books       == books_per_hour(cfg, treasures)
        mending     == mending_books_per_hour(cfg, books)
        single      == mending_single_books(cfg, mending)
        multi       == mending_multi_books(cfg, mending)
        rev_mending == revenue_mending(cfg, single, multi)
        rate        == sellable_non_mending_rate(cfg)
        sellable    == sellable_non_mending_books(books, rate)
        rev_non     == revenue_non_mending(cfg, books)
        grind       == grind_books(books, mending, sellable)
        xp_books    == xp_from_books(cfg, grind)
        yen_books   == yen_from_books(xp_books, yen)
        tools       == tools_per_hour(cfg, treasures)
        xp_tools    == xp_from_tools(cfg, tools)
        yen_tools   == yen_from_tools(xp_tools, yen)
        xp_fishing  == xp_from_fishing(cfg)
        yen_fishing == yen_from_fishing(xp_fishing, yen)
        fish_rate   == fish_rate_total(cfg)
        fish        == fish_per_hour(cfg, fish_rate)
        c           == cod(cfg, fish)
        s           == salmon(cfg, fish)
        p           == puffer(cfg, fish)
        t           == tropical(cfg, fish)
        rev_fish    == revenue_fish(cfg, c, s, p, t)
    IN  IF IsRaised(yen) THEN [exc |-> yen[1], value |-> <<>>]
        ELSE IF IsRaised(books) THEN [exc |-> books[1], value |-> <<>>]
        ELSE [exc |-> "", value |-> <<
            [treasures_per_hour         |-> treasures,
             books_per_hour             |-> books,
             mending_books_per_hour     |-> mending,
             mending_single_books       |-> single,
             mending_multi_books        |-> multi,
             sellable_non_mending_books |-> sellable,
             grind_books                |-> grind,
             tools_per_hour             |-> tools,
             fish_per_hour              |-> fish,
             cod                        |-> c,
             salmon                     |-> s,
             puffer                     |-> p,
             tropical                   |-> t,
             revenue_fish               |-> rev_fish,
             yen_from_fishing           |-> yen_fishing,
             revenue_mending            |-> rev_mending,
             revenue_non_mending        |-> rev_non,
             yen_from_books             |-> yen_books,
             yen_from_tools             |-> yen_tools,
             total_yen_per_hour         |-> total(rev_fish, yen_fishing, rev_mending,
                                                  rev_non, yen_books, yen_tools),
             yen_per_xp                 |-> yen,
             xp_from_fishing            |-> xp_fishing,
             xp_from_books              |-> xp_books,
             xp_from_tools              |-> xp_tools] >>]

(***************************************************************************)
(* State.  cfg is the Config in use; raised and result are the outcome of  *)
(* the last call of compute_income (the exception, "" for none, and the    *)
(* returned dict in a sequence, <<>> for none), kept until the next call.  A caller calls            *)
(* compute_income, may build a second Config from the first and calls      *)
(* again: base is the first call's result and change what the caller      *)
(* changed.  argv, args and mainpc are the command line, the parsed        *)
(* arguments and the position of main.                                     *)
(***************************************************************************)
VARIABLES pc, cfg, raised, result, base, change, argv, args, mainpc

vars == <<pc, cfg, raised, result, base, change, argv, args, mainpc>>

\* Values the configurations of the estimator are drawn from.
CatchesInputs == {Dec(1, 1), Dec(5, 1)}
TreasureRateInputs == {Dec(0, 1), Dec(1, 4), Dec(3, 8), Dec(1, 1)}
TreasureTypesInputs == {0, 3, 6}
XpCashDenomInputs == {Dec(0, 1), Dec(3, 1)}
MendingRateInputs == {Dec(1, 8), Dec(7, 8), Dec(1, 1)}
SmiteRateInputs == {Dec(0, 1), Dec(1, 8), Dec(1, 1)}
BaneRateInputs == {Dec(0, 1), Dec(49, 10000)}
Unb3RateInputs == {Dec(0, 1), Dec(1, 4)}

\* Factors catches_per_hour is rescaled by.
Factors == {Dec(2, 1), Dec(3, 1), Dec(1, 2)}

\* Fields a caller sets between two calls, and the value it sets.
Resets ==
    {<<"treasure_rate", Dec(1, 2)>>, <<"treasure_types", 2>>,
     <<"book_mending_rate", Dec(1, 2)>>, <<"fish_price_cod", 7>>}

ConfigInputs ==
    {[Config EXCEPT !.catches_per_hour = c, !.treasure_rate = t,
                    !.treasure_types = n, !.xp_cash_denom = d,
                    !.book_mending_rate = m, !.book_smite_only_rate = s,
                    !.book_bane_only_rate = b, !.book_unb3_only_rate = u] :
        c \in CatchesInputs, t \in TreasureRateInputs, n \in TreasureTypesInputs,
        d \in XpCashDenomInputs, m \in MendingRateInputs, s \in SmiteRateInputs,
        b \in BaneRateInputs, u \in Unb3RateInputs}

NoCli == argv = <<>> /\ args = <<>> /\ mainpc = "none"

Init ==
    /\ cfg \in ConfigInputs
    /\ pc = "ready"
    /\ raised = ""
    /\ result = <<>>
    /\ base = <<>>
    /\ change = <<>>
    /\ NoCli

\* Fault variant of Call: compute_income overwrites catches_per_hour of
\* the Config with the fish catches.
CallInPlace ==
    /\ pc \in {"ready", "ready2"}
    /\ cfg' = [cfg EXCEPT !.catches_per_hour = Mul(@, Sub(One, cfg.treasure_rate))]
    /\ LET out == compute_income(cfg)
       IN  /\ raised' = out.exc
           /\ result' = out.value
    /\ pc' = IF pc = "ready" THEN "done" ELSE "done2"
    /\ UNCHANGED <<base, change, argv, args, mainpc>>

\* result = compute_income(cfg)
Call ==
    /\ pc \in {"ready", "ready2"}
    /\ cfg' = cfg
    /\ LET out == compute_income(cfg)
       IN  /\ raised' = out.exc
           /\ result' = out.value
    /\ pc' = IF pc = "ready" THEN "done" ELSE "done2"
    /\ UNCHANGED <<base, change, argv, args, mainpc>>

\* The caller builds the Config with catches_per_hour multiplied by k.
Rescale(k) ==
    /\ pc = "done"
    /\ raised = ""
    /\ cfg' = [cfg EXCEPT !.catches_per_hour = Mul(@, k)]
    /\ base' = result
    /\ change' = <<"scale", k>>
    /\ pc' = "ready2"
    /\ UNCHANGED <<raised, result, argv, args, mainpc>>

\* The caller builds the Config with one other field set.
Reset(f, v) ==
    /\ pc = "done"
    /\ raised = ""
    /\ cfg' = [cfg EXCEPT ![f] = v]
    /\ base' = result
    /\ change' = <<"set", f>>
    /\ pc' = "ready2"
    /\ UNCHANGED <<raised, result, argv, args, mainpc>>

\* The caller calls again with an equal Config.
Repeat ==
    /\ pc = "done"
    /\ base' = result
    /\ change' = <<"same">>
    /\ pc' = "ready2"
    /\ UNCHANGED <<cfg, raised, result, argv, args, mainpc>>

Next ==
    \/ Call
    \/ \E k \in Factors : Rescale(k)
    \/ \E r \in Resets : Reset(r[1], r[2])
    \/ Repeat

Spec == Init /\ [][Next]_vars


(***************************************************************************)
(* main: the command line.  A flag is named by its dest, the field of the  *)
(* parsed arguments it sets (--treasure-rate is "treasure_rate").  The     *)
(* text of a value on the command line is a pair <<n, d>>, the decimal     *)
(* n / d; it reads as an int when d = 1.                                   *)
(***************************************************************************)
\* The flags declared with type=float, and the ones declared with type=int.
FloatFlags ==
    {"catches_per_hour", "treasure_rate", "book_mending_rate",
     "book_mending_single_rate", "book_mending_multi_rate",
     "book_smite_only_rate", "book_bane_only_rate", "book_unb3_only_rate",
     "avg_enchants_per_book", "avg_xp_per_enchant", "avg_xp_per_catch",
     "xp_cash_numer", "xp_cash_denom", "avg_enchants_per_tool"}

IntFlags ==
    {"fish_price_cod", "fish_price_salmon", "fish_price_puffer",
     "fish_price_tropical"}

Flags == FloatFlags \cup IntFlags

\* The default= of each add_argument.
ArgDefaults ==
    [catches_per_hour         |-> Dec(500, 1),
     treasure_rate            |-> Dec(113, 1000),
     fish_price_cod           |-> 20,
     fish_price_salmon        |-> 80,
     fish_price_puffer        |-> 180,
     fish_price_tropical      |-> 400,
     book_mending_rate        |-> Dec(377, 10000),
     book_mending_single_rate |-> Dec(409, 1000),
     book_mending_multi_rate  |-> Dec(591, 1000),
     book_smite_only_rate     |-> Dec(74, 10000),
     book_bane_only_rate      |-> Dec(49, 10000),
     book_unb3_only_rate      |-> Dec(143, 10000),
     avg_enchants_per_book    |-> Dec(211, 100),
     avg_xp_per_enchant       |-> Dec(25, 1),
     avg_xp_per_catch         |-> Dec(35, 10),
     xp_cash_numer            |-> Dec(40, 1),
     xp_cash_denom            |-> Dec(12, 1),
     avg_enchants_per_tool    |-> Dec(3, 1)]

\* type=float and type=int applied to the text of a value.
ParseFloat(text) == Dec(text[1], text[2])
ParseInt(text) == text[1]
IsIntText(text) == text[2] = 1

\* The value a flag's type makes of a text.
ParseFlag(f, text) == IF f \in IntFlags THEN ParseInt(text) ELSE ParseFloat(text)

\* The parser rejects the command line: a flag it does not declare, or a
\* value its type cannot read.
Rejected(line) ==
    \E f \in DOMAIN line : f \notin Flags \/ (f \in IntFlags /\ ~IsIntText(line[f]))

\* args = parser.parse_args()
parse_args(line) ==
    [f \in Flags |-> IF f \in DOMAIN line THEN ParseFlag(f, line[f]) ELSE ArgDefaults[f]]

\* Fault variant of Keywords: avg_enchants_per_tool is not passed on.
KeywordsForgetTool == Flags \ {"avg_enchants_per_tool"}

\* The keyword arguments of the Config(...) call, each passed args.<name>.
Keywords ==
    {"catches_per_hour", "treasure_rate", "fish_price_cod", "fish_price_salmon",
     "fish_price_puffer", "fish_price_tropical", "book_mending_rate",
     "book_mending_single_rate", "book_mending_multi_rate",
     "book_smite_only_rate", "book_bane_only_rate", "book_unb3_only_rate",
     "avg_enchants_per_book", "avg_xp_per_enchant", "avg_xp_per_catch",
     "xp_cash_numer", "xp_cash_denom", "avg_enchants_per_tool"}

\* Texts of values tried on the command line.
Texts == {<<0, 1>>, <<7, 1>>, <<1, 4>>}

\* The sets of at most n fields.
RECURSIVE FieldSets(_)
FieldSets(n) ==
    IF n = 0 THEN {{}}
    ELSE FieldSets(n - 1) \cup {S \cup {f} : S \in FieldSets(n - 1), f \in ConfigFields}

\* The command lines tried: at most MaxFlags flags, each named after a
\* field of Config, each with a text.
ArgvInputs == UNION {[S -> Texts] : S \in FieldSets(MaxFlags)}

InitMain ==
    /\ mainpc = "start"
    /\ argv \in ArgvInputs
    /\ args = <<>>
    /\ cfg = Config
    /\ pc = "main"
    /\ raised = ""
    /\ result = <<>>
    /\ base = <<>>
    /\ change = <<>>

\* args = parser.parse_args(): the parser exits with a usage error on a
\* command line it rejects.
ParseArgs ==
    /\ mainpc = "start"
    /\ IF Rejected(argv)
       THEN mainpc' = "usage_error" /\ args' = args
       ELSE mainpc' = "parsed" /\ args' = parse_args(argv)
    /\ UNCHANGED <<pc, cfg, raised, result, base, change, argv>>

\* cfg = Config(catches_per_hour=args.catches_per_hour, ...)
BuildConfig ==
    /\ mainpc = "parsed"
    /\ cfg' = [f \in ConfigFields |-> IF f \in Keywords THEN args[f] ELSE Config[f]]
    /\ mainpc' = "configured"
    /\ UNCHANGED <<pc, raised, result, base, change, argv, args>>

\* result = compute_income(cfg): an exception ends main with a traceback.
RunEstimator ==
    /\ mainpc = "configured"
    /\ LET out == compute_income(cfg)
       IN  /\ raised' = out.exc
           /\ result' = out.value
           /\ mainpc' = IF out.exc = "" THEN "computed" ELSE "traceback"
    /\ UNCHANGED <<pc, cfg, base, change, argv, args>>

\* The two print loops, over the Config and over the result.
PrintReport ==
    /\ mainpc = "computed"
    /\ mainpc' = "printed"
    /\ UNCHANGED <<pc, cfg, raised, result, base, change, argv, args>>

NextMain == ParseArgs \/ BuildConfig \/ RunEstimator \/ PrintReport

SpecMain == InitMain /\ [][NextMain]_vars

(***************************************************************************)
(* Properties of compute_income.                                           *)
(***************************************************************************)
Done == pc \in {"done", "done2"}

\* The last call returned a dict.
Returned == Done /\ raised = ""

\* The dict the last call returned, and the one the call before it returned.
R == result[1]
B == base[1]

Min(a, b) == IF a < b THEN a ELSE b
Max(a, b) == IF a < b THEN b ELSE a

\* The exact value of the float a in units of 2^e, e at most a's exponent.
Units(a, e) == a[1] * Pow2(a[2] - e)

\* The unit in the last place of a, in units of 2^e.
UlpUnits(a, e) ==
    IF a[1] = 0 THEN 0 ELSE Pow2(a[2] + BitLen(Abs(a[1])) - Precision - e)

\* mending_books_per_hour + sellable_non_mending_books + grind_books, as
\* Python evaluates it.
ConservationSum(r) ==
    Add(Add(r.mending_books_per_hour, r.sellable_non_mending_books), r.grind_books)

\* C1 as stated: mending_books_per_hour + sellable_non_mending_books +
\* grind_books equals books_per_hour exactly, for every configuration.
C1_ConservationExact == Returned => ConservationSum(R) = R.books_per_hour

\* C1 as amended: the sum equals books_per_hour up to rounding only: it is
\* within two units in the last place of the largest of the four rounded
\* values books - mending, grind_books, mending + sellable and the sum.
C1_ConservationWithinRounding ==
    Returned =>
        LET d1 == Sub(R.books_per_hour, R.mending_books_per_hour)
            t  == Add(R.mending_books_per_hour, R.sellable_non_mending_books)
            sm == ConservationSum(R)
            g  == R.grind_books
            e  == Min(Min(sm[2], R.books_per_hour[2]) , Min(Min(d1[2], g[2]), t[2]))
                  - Precision
            u  == Max(Max(UlpUnits(d1, e), UlpUnits(g, e)),
                      Max(UlpUnits(t, e), UlpUnits(sm, e)))
        IN  Abs(Units(sm, e) - Units(R.books_per_hour, e)) <= 2 * u

\* A run where the sum of the three book counts was compared with a
\* positive books_per_hour and differs from it.
C1_Witness ==
    /\ Returned
    /\ R.books_per_hour[1] > 0
    /\ R.grind_books[1] # 0
    /\ ConservationSum(R) # R.books_per_hour


\* The keys of the returned dict that are per-hour counts, XP figures or
\* revenue terms: all of them but yen_per_xp.
ScaledKeys == DOMAIN R \ {"yen_per_xp"}

\* The last call ran on the Config of the call before with catches_per_hour
\* multiplied by change[2].
Rescaled == pc = "done2" /\ change[1] = "scale"

IsPowerOfTwo(k) == k[1] = 1

\* C2 as stated: with catches_per_hour multiplied by any k, every count,
\* XP figure and revenue term is exactly k times its value (the product
\* k * value as a float), and yen_per_xp is unchanged.
C2_LinearAnyFactor ==
    Rescaled =>
        /\ \A f \in ScaledKeys : R[f] = Mul(change[2], B[f])
        /\ R.yen_per_xp = B.yen_per_xp

\* C2 as amended: the scaling is exact when k is a power of two; for every
\* k yen_per_xp is unchanged.
C2_LinearPowerOfTwo ==
    Rescaled =>
        /\ IsPowerOfTwo(change[2]) => \A f \in ScaledKeys : R[f] = Mul(change[2], B[f])
        /\ R.yen_per_xp = B.yen_per_xp

\* A rescaling by a power of two of a run with books, fish and a non-zero
\* grind_books.
C2_Witness ==
    /\ Rescaled
    /\ IsPowerOfTwo(change[2])
    /\ R.grind_books[1] # 0
    /\ R.fish_per_hour[1] # 0
    /\ R.total_yen_per_hour # B.total_yen_per_hour

ZeroDivisor == cfg.treasure_types = 0 \/ cfg.xp_cash_denom = Zero

\* C3 as stated: with treasure_types = 0 or xp_cash_denom = 0 the call
\* completes and returns a result record; it never ends in an error.
C3_ZeroDivisorReturns == (Done /\ ZeroDivisor) => (raised = "" /\ Len(result) = 1)

\* C3 as amended: with treasure_types = 0 or xp_cash_denom = 0, and only
\* then, the call raises ZeroDivisionError and returns no result record.
C3_ZeroDivisorRaises ==
    Done =>
        /\ ZeroDivisor <=> raised = "ZeroDivisionError"
        /\ raised # "" => result = <<>>
        /\ raised = "" => Len(result) = 1

\* A call with treasure_types = 0 and a non-zero xp_cash_denom has raised.
C3_Witness ==
    /\ Done
    /\ cfg.treasure_types = 0
    /\ cfg.xp_cash_denom # Zero
    /\ raised = "ZeroDivisionError"

C5_FullTreasure ==
    (Returned /\ cfg.treasure_rate = One) =>
        /\ R.fish_per_hour = Zero
        /\ R.cod = Zero
        /\ R.salmon = Zero
        /\ R.puffer = Zero
        /\ R.tropical = Zero
        /\ R.revenue_fish = Zero

\* A call with treasure_rate = 1, non-zero fish rates and prices has
\* returned.
C5_Witness ==
    /\ Returned
    /\ cfg.treasure_rate = One
    /\ cfg.catches_per_hour # Zero
    /\ cfg.fish_rate_cod # Zero
    /\ cfg.fish_price_cod # 0

\* A step that is a call leaves the Config unchanged, and with a Config
\* equal to the one of the call before it has the outcome of that call.
CallIsPure ==
    pc \in {"ready", "ready2"} =>
        /\ cfg' = cfg
        /\ change = <<"same">> => (result' = result /\ raised' = raised)

C8_XpConversion ==
    Returned =>
        /\ R.yen_from_fishing =
               Mul(Mul(cfg.catches_per_hour, cfg.avg_xp_per_catch),
                   Div(cfg.xp_cash_numer, cfg.xp_cash_denom))
        /\ (pc = "done2" /\ change[1] = "set") =>
               R.yen_from_fishing = B.yen_from_fishing

\* A second call after treasure_rate was set to another value has returned
\* a non-zero yen_from_fishing.
C8_Witness ==
    /\ Returned
    /\ pc = "done2"
    /\ change = <<"set", "treasure_rate">>
    /\ R.fish_per_hour # B.fish_per_hour
    /\ R.yen_from_fishing # Zero

\* C9: total_yen_per_hour is the sum of the six returned revenue streams,
\* each once.
C9_TotalIsSumOfSix ==
    Returned =>
        R.total_yen_per_hour =
            Add(Add(Add(Add(Add(R.revenue_fish, R.yen_from_fishing),
                            R.revenue_mending),
                        R.revenue_non_mending),
                    R.yen_from_books),
                R.yen_from_tools)

\* A call has returned six non-zero revenue streams.
C9_Witness ==
    /\ Returned
    /\ R.revenue_fish # Zero
    /\ R.yen_from_fishing # Zero
    /\ R.revenue_mending # Zero
    /\ R.revenue_non_mending # Zero
    /\ R.yen_from_books # Zero
    /\ R.yen_from_tools # Zero

\* The four book rates of the claim, their lowest exponent, their exact sum
\* in units of 2^RateExp and their sum as Python adds them.
BookRates ==
    <<cfg.book_mending_rate, cfg.book_smite_only_rate,
      cfg.book_bane_only_rate, cfg.book_unb3_only_rate>>

RateExp ==
    Min(Min(Min(BookRates[1][2], BookRates[2][2]),
            Min(BookRates[3][2], BookRates[4][2])), 4 - Precision)

ExactRateSum ==
    Units(BookRates[1], RateExp) + Units(BookRates[2], RateExp)
        + Units(BookRates[3], RateExp) + Units(BookRates[4], RateExp)

FloatRateSum == Add(Add(Add(BookRates[1], BookRates[2]), BookRates[3]), BookRates[4])

\* 16 units of 2^-Precision, the margin of the rounding of the book counts.
Margin == <<1, 4 - Precision>>

RatesInRange == \A i \in 1..4 : BookRates[i][1] >= 0 /\ Le(BookRates[i], One)

Built == mainpc \in {"configured", "computed", "traceback", "printed"}

\* The fields of Config that hold an int.
IntFields ==
    {"treasure_types", "fish_price_cod", "fish_price_salmon", "fish_price_puffer",
     "fish_price_tropical", "price_mending_single", "price_mending_multi",
     "price_smite_only", "price_bane_only", "price_unb3_only"}

\* The value of field f a text stands for, by the type of the field.
FieldValue(f, text) == IF f \in IntFields THEN text[1] ELSE Dec(text[1], text[2])

\* C6 as stated: the command line accepts a flag for every field of Config:
\* a command line of flags named after fields, with values of the fields'
\* types, is not rejected, and the Config reflects each.
C6_EveryFieldHasFlag ==
    (\A f \in DOMAIN argv : f \in IntFields => IsIntText(argv[f])) =>
        /\ mainpc # "usage_error"
        /\ Built => \A f \in DOMAIN argv : cfg[f] = FieldValue(f, argv[f])

\* The 18 fields of Config that have a flag.
C6_FlaggedFields ==
    {"catches_per_hour", "treasure_rate", "fish_price_cod", "fish_price_salmon",
     "fish_price_puffer", "fish_price_tropical", "book_mending_rate",
     "book_mending_single_rate", "book_mending_multi_rate",
     "book_smite_only_rate", "book_bane_only_rate", "book_unb3_only_rate",
     "avg_enchants_per_book", "avg_xp_per_enchant", "avg_xp_per_catch",
     "xp_cash_numer", "xp_cash_denom", "avg_enchants_per_tool"}

\* C6 as amended: the command line accepts a flag for 18 of the 28 fields,
\* each with the default of the field, and the Config reflects each; the
\* other ten fields (treasure_types, the four fish rates, the five book
\* prices) have no flag: a flag for one is rejected, and they always hold
\* their defaults.
C6_FlagsForEighteenFields ==
    /\ mainpc = "usage_error" =>
           \E f \in DOMAIN argv :
               f \notin C6_FlaggedFields \/ (f \in IntFields /\ ~IsIntText(argv[f]))
    /\ Built =>
           /\ DOMAIN argv \subseteq C6_FlaggedFields
           /\ \A f \in C6_FlaggedFields :
                  cfg[f] = IF f \in DOMAIN argv THEN FieldValue(f, argv[f]) ELSE Config[f]
           /\ \A f \in ConfigFields \ C6_FlaggedFields : cfg[f] = Config[f]
    /\ mainpc \in {"computed", "printed"} => result = compute_income(cfg).value

\* main has run the estimator on a Config with avg_enchants_per_tool set
\* from the command line.
C6_Witness ==
    /\ mainpc = "printed"
    /\ "avg_enchants_per_tool" \in DOMAIN argv
    /\ cfg.avg_enchants_per_tool # Config.avg_enchants_per_tool

====
